---- MODULE Spec2Model ----
(***************************************************************************)
(* Fourier space time-stepping option pricer (option.cu).                  *)
(*                                                                         *)
(* The model follows computeGPU statement by statement: one action per     *)
(* device call or kernel launch.  Number representation:                   *)
(*   - log-prices (x_min, x_max, delta_x) are integers in units of ln 2,   *)
(*     so that exp(x) is the exact power of two Pow2(x);                   *)
(*   - money is fixed point with Depth fractional bits;                    *)
(*   - a characteristic exponent is kept as its exact coefficients of      *)
(*     (pi*delta_frequency)^2, 1 and pi*delta_frequency, plus the jump     *)
(*     term it adds;                                                       *)
(*   - the values cuFFT and the propagator produce are abstracted: the     *)
(*     spectrum is a tag per bin, and the inverse transform yields N times *)
(*     a continuation value chosen from ContVals for every grid point.     *)
(***************************************************************************)
EXTENDS Integers, Sequences, FiniteSets, TLC

VARIABLES params, pc, i, d_prices, d_ft, d_characteristic, d_jump_ft,
          held, issued, launchFailed, initialValues, printed, intervals,
          launch

vars == <<params, pc, i, d_prices, d_ft, d_characteristic, d_jump_ft,
          held, issued, launchFailed, initialValues, printed, intervals,
          launch>>

(* ------------------------------ bounds -------------------------------- *)

\* Largest timestep count (--timesteps) the model runs.
MaxTimesteps == 2

\* Largest jump intensity (--lambda) the model draws.
MaxJumpMean == 1

\* Largest expiry time (--T) the model draws, in years.
MaxExpiryTime == 2

\* The largest resolution whose launches are run block by block is
\* 2^MaxLogResolution.
MaxLogResolution == 13

(* ----------------------------- constants ------------------------------ *)

MAX_BLOCK_SIZE == 1024

\* MAX_BLOCK_SIZE of the USE_FLOAT build.
MAX_BLOCK_SIZE_FLOAT == 512

\* Resolutions (--resolution): powers of two.
Resolutions == {2, 4}

\* (x_min, x_max) in units of ln 2, x_min < 0 < x_max.
GridChoices == {<<-1, 2>>, <<-2, 1>>, <<-3, 3>>}

\* Fractional bits of the fixed-point money representation: the largest -x_min.
Depth == CHOOSE d \in {0 - g[1] : g \in GridChoices} :
             \A g \in GridChoices : 0 - g[1] <= d

\* A null device pointer, and the contents of fresh device memory.
NULL == << >>
FtUninit == "uninit"
PsiUninit == [model |-> "uninit"]
JumpUninit == [kind |-> "uninit"]
PriceUninit == 0 - 1

Max(a, b) == IF a >= b THEN a ELSE b
Min(a, b) == IF a <= b THEN a ELSE b

RECURSIVE Pow2(_)
Pow2(n) == IF n <= 0 THEN 1 ELSE 2 * Pow2(n - 1)

\* A currency amount as fixed point.
Money(x) == x * Pow2(Depth)

(* ------------------------- launch geometry ---------------------------- *)

\* Every value of blockIdx.x * blockDim.x + threadIdx.x of one launch.
LaunchIndices(blocks, threads) ==
    {b * threads + t : b \in 0..(blocks - 1), t \in 0..(threads - 1)}

\* <<<max(N / MAX_BLOCK_SIZE, 1), min(N, MAX_BLOCK_SIZE)>>>: the number of blocks
\* and the threads per block, for either value of MAX_BLOCK_SIZE.
GridBlockCount(n, maxBlockSize) == Max(n \div maxBlockSize, 1)

\* Mutant: every block has MAX_BLOCK_SIZE threads, also on a smaller grid.
GridBlockSize_Full(n, maxBlockSize) == maxBlockSize

GridBlockSize(n, maxBlockSize) == Min(n, maxBlockSize)

GridLaunchIndices(N) ==
    LaunchIndices(GridBlockCount(N, MAX_BLOCK_SIZE), GridBlockSize(N, MAX_BLOCK_SIZE))

\* int fourier_size = N / 2 + 1;
fourier_size(n) == n \div 2 + 1

\* int fourier_block_count = (int)ceil((double)fourier_size / MAX_BLOCK_SIZE);
fourier_block_count(n, maxBlockSize) ==
    (fourier_size(n) + maxBlockSize - 1) \div maxBlockSize

\* int fourier_block_size = min(fourier_size, MAX_BLOCK_SIZE);
fourier_block_size(n, maxBlockSize) == Min(fourier_size(n), maxBlockSize)

FourierLaunchIndices(N) ==
    LaunchIndices(fourier_block_count(N, MAX_BLOCK_SIZE),
                  fourier_block_size(N, MAX_BLOCK_SIZE))

\* A kernel launch over a device buffer: the thread of every index idx of
\* the launch stores its result stored[idx] in buffer[idx].
Launch(buffer, indices, stored) ==
    [idx \in DOMAIN buffer |-> IF idx \in indices THEN stored[idx] ELSE buffer[idx]]

(* ------------------------------ kernels ------------------------------- *)

\* Mutant: the thread uses idx itself as the frequency index (no folding).
FoldedFrequency_Unfolded(idx, N) == idx

\* m of a thread: idx when idx <= N / 2, else idx - N.
FoldedFrequency(idx, N) == IF idx <= N \div 2 THEN idx ELSE idx - N

\* prepareMertonJumpFT: exp(-2 (pi k gamma)^2 - i 2 pi k mu), k = delta_frequency * m.
prepareMertonJumpFT(idx, N) == [kind |-> "Merton", m |-> FoldedFrequency(idx, N)]

\* prepareKouJumpFT: p / (1 + i 2 pi k / etaUp) + (1 - p) / (1 - i 2 pi k / etaDown).
prepareKouJumpFT(idx, N) == [kind |-> "Kou", m |-> FoldedFrequency(idx, N)]

NoJumpTerm == [coef |-> 0, conj |-> NULL]

\* prepareJumpModelCharacteristic: psi of one thread.
\*   re_pi2 : coefficient of (pi delta_frequency)^2 in the real part
\*   re_one : the constant of the real part
\*   im_pi  : coefficient of (pi delta_frequency) in the imaginary part
\*   jump   : jumpMean * conj(jump_ft[idx]) when jump_ft is not NULL
\*   m      : the signed frequency index the thread computed k from
prepareJumpModelCharacteristic(jump_ft, riskFreeRate, dividend, volatility, jumpMean, kappa, idx, N) ==
    LET m == FoldedFrequency(idx, N)
        fst_term == volatility * m
    IN  [model  |-> "JumpModel",
         m      |-> m,
         re_pi2 |-> (0 - 2) * fst_term * fst_term,
         re_one |-> 0 - (riskFreeRate + jumpMean),
         im_pi  |-> (2 * riskFreeRate - 2 * dividend - 2 * jumpMean * kappa
                       - volatility * volatility) * m,
         jump   |-> IF jump_ft # NULL
                    THEN [coef |-> jumpMean, conj |-> jump_ft[idx]]
                    ELSE NoJumpTerm]

\* prepareCGMYCharacteristic: C Gamma(-Y) ((M - iw)^Y + (G + iw)^Y - M^Y - G^Y).
prepareCGMYCharacteristic(idx, N) == [model |-> "CGMY", m |-> FoldedFrequency(idx, N)]

\* startPrice * exp(x_min + idx * delta_x), fixed point.
AssetPrice(startPrice, x_min, delta_x, idx) ==
    startPrice * Pow2(Depth + x_min + idx * delta_x)

\* Mutant: the payoff is added to the value instead of flooring it.
earlyExercise_Accumulates(ft, startPrice, strikePrice, x_min, delta_x, type, idx) ==
    LET assetPrice == AssetPrice(startPrice, x_min, delta_x, idx)
    IN  IF type = "Call"
        THEN ft[idx] + Max(assetPrice - Money(strikePrice), 0)
        ELSE ft[idx] + Max(Money(strikePrice) - assetPrice, 0)

\* earlyExercise: the new ft[idx] of one thread.
earlyExercise(ft, startPrice, strikePrice, x_min, delta_x, type, idx) ==
    LET assetPrice == AssetPrice(startPrice, x_min, delta_x, idx)
    IN  IF type = "Call"
        THEN Max(ft[idx], Max(assetPrice - Money(strikePrice), 0))
        ELSE Max(ft[idx], Max(Money(strikePrice) - assetPrice, 0))

\* normalize: ft[idx] /= length.
normalize(ft, length, idx) == ft[idx] \div length

\* solveODE: old_value * exp((to_time - from_time) * psi); the product is
\* kept as a tag, "garbage" when psi was never written.
solveODE(ft, characteristic, idx) ==
    IF characteristic[idx] = PsiUninit \/ ft[idx] # "spectrum"
    THEN "garbage"
    ELSE "propagated"

(* --------------------------- host helpers ----------------------------- *)

\* delta_x = (x_max - x_min) / (N - 1).
DeltaX(prms) == (prms.x_max - prms.x_min) \div (prms.resolution - 1)

\* Parameters::kappa(): the expected relative price jump of the jump model.
kappa(prms) == IF prms.jumpType = "None" THEN 0 ELSE 1

\* assetPricesAtPayoff: out[i] = startPrice * exp(x_min + i * delta_x).
assetPricesAtPayoff(prms) ==
    [n \in 0..(prms.resolution - 1) |->
        AssetPrice(prms.startPrice, prms.x_min, DeltaX(prms), n)]

\* optionValuesAtPayoff: max(S - K, 0) for a call, max(K - S, 0) for a put.
optionValuesAtPayoff(prms, assetPrices) ==
    [n \in 0..(prms.resolution - 1) |->
        IF prms.optionPayoffType = "Call"
        THEN Max(assetPrices[n] - Money(prms.strikePrice), 0)
        ELSE Max(Money(prms.strikePrice) - assetPrices[n], 0)]

\* The optionValues vector main hands to computeGPU.
OptionValues(prms) == optionValuesAtPayoff(prms, assetPricesAtPayoff(prms))

\* answer_index == (int)answer_index, answer_index = -x_min (N-1) / (x_max-x_min).
AnswerIndexIsInteger(prms) ==
    ((0 - prms.x_min) * (prms.resolution - 1)) % (prms.x_max - prms.x_min) = 0

\* (int)answer_index.
AnswerIndex(prms) ==
    ((0 - prms.x_min) * (prms.resolution - 1)) \div (prms.x_max - prms.x_min)

(* ------------------------------ state --------------------------------- *)

\* Continuation values (fixed point) the inverse transform can leave, before
\* the division by N.
ContVals == {0, Money(32)}

NoStep == 0 - 1

\* One entry of the history of device operations issued by computeGPU.
Op(name, step) == [op |-> name, step |-> step]

N == params.resolution

\* The Parameters record main fills from the command line.
ParametersRecord(n, t, e, p, j, k, g, l) ==
    [resolution |-> n, timesteps |-> t, optionExerciseType |-> e,
     optionPayoffType |-> p, jumpType |-> j, startPrice |-> 2,
     strikePrice |-> k, x_min |-> g[1], x_max |-> g[2],
     riskFreeRate |-> 1, dividendRate |-> 0, volatility |-> 1,
     jumpMean |-> l, expiryTime |-> 1]

\* Runs that vary the jump model and the jump intensity.
JumpRuns ==
    {ParametersRecord(n, t, e, "Call", j, 1, <<-1, 2>>, l) :
        n \in Resolutions, t \in 0..MaxTimesteps,
        e \in {"European", "American"},
        j \in {"None", "Merton", "Kou", "CGMY"}, l \in 0..MaxJumpMean}

\* Runs that vary the contract and the grid.
ContractRuns ==
    {ParametersRecord(n, t, e, p, "None", k, g, 0) :
        n \in Resolutions, t \in 0..MaxTimesteps,
        e \in {"European", "American"}, p \in {"Call", "Put"},
        k \in {1, 3}, g \in GridChoices}

\* Runs that vary the expiry time (--T).
TimeRuns ==
    {[ParametersRecord(4, t, "European", "Call", "None", 1, <<-1, 2>>, 0)
        EXCEPT !.expiryTime = x] :
        t \in 0..MaxTimesteps, x \in 0..MaxExpiryTime}

Parameters == JumpRuns \cup ContractRuns \cup TimeRuns

\* No launch is being run block by block.
NoLaunch ==
    [kernel |-> "none", maxBlockSize |-> MAX_BLOCK_SIZE, gridDim |-> 0,
     blockDim |-> 0, blockIdx |-> 0, touched |-> {}, repeated |-> {},
     outside |-> {}]

Init ==
    /\ params \in Parameters
    /\ pc = "malloc_prices"
    /\ i = 0
    /\ d_prices = NULL
    /\ d_ft = NULL
    /\ d_characteristic = NULL
    /\ d_jump_ft = NULL
    /\ held = {}
    /\ issued = << >>
    /\ launchFailed = FALSE
    /\ initialValues = [n \in 0..(params.resolution - 1) |-> 0]
    /\ printed = << >>
    /\ intervals = << >>
    /\ launch = NoLaunch

\* checkCuda / checkCufft on a failed call: the process terminates.
Terminate(name, step) ==
    /\ pc' = "aborted"
    /\ issued' = Append(issued, Op(name, step))
    /\ UNCHANGED <<params, launch, intervals, i, d_prices, d_ft, d_characteristic, d_jump_ft,
                   held, launchFailed, initialValues, printed>>

(* ---------------------- computeGPU: preparation ----------------------- *)

\* checkCuda(cudaMalloc(&d_prices, sizeof(double) * N))
MallocPrices ==
    /\ pc = "malloc_prices"
    /\ \/ /\ pc' = "copy_in"
          /\ d_prices' = [n \in 0..(N - 1) |-> PriceUninit]
          /\ held' = held \cup {"d_prices"}
          /\ issued' = Append(issued, Op("cudaMalloc d_prices", NoStep))
          /\ UNCHANGED <<params, launch, intervals, i, d_ft, d_characteristic, d_jump_ft,
                         launchFailed, initialValues, printed>>
       \/ Terminate("cudaMalloc d_prices", NoStep)

\* checkCuda(cudaMemcpy(d_prices, &optionValues[0], ..., cudaMemcpyHostToDevice))
CopyIn ==
    /\ pc = "copy_in"
    /\ \/ /\ pc' = "malloc_ft"
          /\ d_prices' = OptionValues(params)
          /\ issued' = Append(issued, Op("cudaMemcpy HostToDevice", NoStep))
          /\ UNCHANGED <<params, launch, intervals, i, d_ft, d_characteristic, d_jump_ft, held,
                         launchFailed, initialValues, printed>>
       \/ Terminate("cudaMemcpy HostToDevice", NoStep)

\* checkCuda(cudaMalloc(&d_ft, sizeof(complex) * N))
MallocFt ==
    /\ pc = "malloc_ft"
    /\ \/ /\ pc' = "plan"
          /\ d_ft' = [n \in 0..(N - 1) |-> FtUninit]
          /\ held' = held \cup {"d_ft"}
          /\ issued' = Append(issued, Op("cudaMalloc d_ft", NoStep))
          /\ UNCHANGED <<params, launch, intervals, i, d_prices, d_characteristic, d_jump_ft,
                         launchFailed, initialValues, printed>>
       \/ Terminate("cudaMalloc d_ft", NoStep)

\* checkCufft(cufftPlan1d(&plan, N, CUFFT_D2Z, 1))
PlanForward ==
    /\ pc = "plan"
    /\ \/ /\ pc' = "planr"
          /\ held' = held \cup {"plan"}
          /\ issued' = Append(issued, Op("cufftPlan1d plan", NoStep))
          /\ UNCHANGED <<params, launch, intervals, i, d_prices, d_ft, d_characteristic, d_jump_ft,
                         launchFailed, initialValues, printed>>
       \/ Terminate("cufftPlan1d plan", NoStep)

\* checkCufft(cufftPlan1d(&planr, N, CUFFT_Z2D, 1))
PlanInverse ==
    /\ pc = "planr"
    /\ \/ /\ pc' = "malloc_characteristic"
          /\ held' = held \cup {"planr"}
          /\ issued' = Append(issued, Op("cufftPlan1d planr", NoStep))
          /\ UNCHANGED <<params, launch, intervals, i, d_prices, d_ft, d_characteristic, d_jump_ft,
                         launchFailed, initialValues, printed>>
       \/ Terminate("cufftPlan1d planr", NoStep)

\* checkCuda(cudaMalloc(&d_characteristic, sizeof(complex) * N)), then the
\* branch on params.jumpType.
MallocCharacteristic ==
    /\ pc = "malloc_characteristic"
    /\ \/ /\ pc' = IF params.jumpType = "CGMY" THEN "prepare_cgmy"
                    ELSE IF params.jumpType # "None" THEN "malloc_jump_ft"
                    ELSE "prepare_characteristic"
          /\ d_characteristic' = [n \in 0..(N - 1) |-> PsiUninit]
          /\ held' = held \cup {"d_characteristic"}
          /\ issued' = Append(issued, Op("cudaMalloc d_characteristic", NoStep))
          /\ UNCHANGED <<params, launch, intervals, i, d_prices, d_ft, d_jump_ft,
                         launchFailed, initialValues, printed>>
       \/ Terminate("cudaMalloc d_characteristic", NoStep)

\* A kernel launch whose outcome nobody inspects: the kernel either runs, or
\* the launch fails, no thread runs, and computeGPU goes on.
LaunchOutcome(name, step, next) ==
    /\ pc' = next
    /\ issued' = Append(issued, Op(name, step))
    /\ UNCHANGED <<params, launch, held, initialValues, printed>>

\* prepareCGMYCharacteristic<<<...>>>(d_characteristic, N, ...)
LaunchCGMY ==
    /\ pc = "prepare_cgmy"
    /\ UNCHANGED intervals
    /\ LaunchOutcome("prepareCGMYCharacteristic", NoStep, "loop")
    /\ \/ /\ d_characteristic' =
                Launch(d_characteristic, GridLaunchIndices(N),
                       [idx \in GridLaunchIndices(N) |-> prepareCGMYCharacteristic(idx, N)])
          /\ UNCHANGED <<i, d_prices, d_ft, d_jump_ft, launchFailed>>
       \/ /\ launchFailed' = TRUE
          /\ UNCHANGED <<i, d_prices, d_ft, d_characteristic, d_jump_ft>>

\* checkCuda(cudaMalloc(&d_jump_ft, sizeof(complex) * N))
MallocJumpFt ==
    /\ pc = "malloc_jump_ft"
    /\ \/ /\ pc' = IF params.jumpType = "Merton" THEN "prepare_merton"
                    ELSE IF params.jumpType = "Kou" THEN "prepare_kou"
                    ELSE "prepare_characteristic"
          /\ d_jump_ft' = [n \in 0..(N - 1) |-> JumpUninit]
          /\ held' = held \cup {"d_jump_ft"}
          /\ issued' = Append(issued, Op("cudaMalloc d_jump_ft", NoStep))
          /\ UNCHANGED <<params, launch, intervals, i, d_prices, d_ft, d_characteristic,
                         launchFailed, initialValues, printed>>
       \/ Terminate("cudaMalloc d_jump_ft", NoStep)

\* prepareMertonJumpFT<<<...>>>(d_jump_ft, delta_frequency, N, ...)
LaunchMerton ==
    /\ pc = "prepare_merton"
    /\ UNCHANGED intervals
    /\ LaunchOutcome("prepareMertonJumpFT", NoStep, "prepare_characteristic")
    /\ \/ /\ d_jump_ft' =
                Launch(d_jump_ft, GridLaunchIndices(N),
                       [idx \in GridLaunchIndices(N) |-> prepareMertonJumpFT(idx, N)])
          /\ UNCHANGED <<i, d_prices, d_ft, d_characteristic, launchFailed>>
       \/ /\ launchFailed' = TRUE
          /\ UNCHANGED <<i, d_prices, d_ft, d_characteristic, d_jump_ft>>

\* prepareKouJumpFT<<<...>>>(d_jump_ft, delta_frequency, N, ...)
LaunchKou ==
    /\ pc = "prepare_kou"
    /\ UNCHANGED intervals
    /\ LaunchOutcome("prepareKouJumpFT", NoStep, "prepare_characteristic")
    /\ \/ /\ d_jump_ft' =
                Launch(d_jump_ft, GridLaunchIndices(N),
                       [idx \in GridLaunchIndices(N) |-> prepareKouJumpFT(idx, N)])
          /\ UNCHANGED <<i, d_prices, d_ft, d_characteristic, launchFailed>>
       \/ /\ launchFailed' = TRUE
          /\ UNCHANGED <<i, d_prices, d_ft, d_characteristic, d_jump_ft>>

\* prepareJumpModelCharacteristic<<<...>>>(d_characteristic, d_jump_ft, ...)
LaunchJumpModelCharacteristic ==
    /\ pc = "prepare_characteristic"
    /\ UNCHANGED intervals
    /\ LaunchOutcome("prepareJumpModelCharacteristic", NoStep, "loop")
    /\ \/ /\ d_characteristic' =
                Launch(d_characteristic, GridLaunchIndices(N),
                       [idx \in GridLaunchIndices(N) |-> prepareJumpModelCharacteristic(
                           d_jump_ft, params.riskFreeRate, params.dividendRate,
                           params.volatility, params.jumpMean, kappa(params),
                           idx, N)])
          /\ UNCHANGED <<i, d_prices, d_ft, d_jump_ft, launchFailed>>
       \/ /\ launchFailed' = TRUE
          /\ UNCHANGED <<i, d_prices, d_ft, d_characteristic, d_jump_ft>>

(* ---------------------- computeGPU: timestep loop --------------------- *)

\* Mutant: the loop runs while i <= timesteps.
LoopCondition_Inclusive == i <= params.timesteps

\* for (int i = 0; i < params.timesteps; i++): the loop condition.
LoopCondition == i < params.timesteps

\* Times are exact rationals in lowest terms, so that equal times are equal
\* records.
RECURSIVE GCD(_, _)
GCD(a, b) == IF b = 0 THEN a ELSE GCD(b, a % b)

Rational(n, d) == [num |-> n \div GCD(n, d), den |-> d \div GCD(n, d)]

\* a / b for an integer a and a positive integer b, and a * b for a rational a
\* and an integer b.
Over(a, b) == Rational(a, b)
Times(a, b) == Rational(a.num * b, a.den)

\* double from_time = (double)i / params.timesteps * params.expiryTime;
from_time(step) == Times(Over(step, params.timesteps), params.expiryTime)

\* Mutant: the cast is missing, so the quotient is the integer one.
to_time_IntegerDivision(step) ==
    Rational(((step + 1) \div params.timesteps) * params.expiryTime, 1)

\* double to_time = (double)(i + 1) / params.timesteps * params.expiryTime;
to_time(step) == Times(Over(step + 1, params.timesteps), params.expiryTime)

\* checkCufft(cufftExecD2Z(plan, d_prices, d_ft)): bins 0..N/2 are written.
ForwardTransform ==
    /\ pc = "loop"
    /\ LoopCondition
    /\ \/ /\ pc' = "solve_ode"
          /\ d_ft' = [n \in DOMAIN d_ft |->
                        IF n <= N \div 2 THEN "spectrum" ELSE d_ft[n]]
          /\ issued' = Append(issued, Op("cufftExecD2Z", i))
          /\ UNCHANGED <<params, launch, intervals, i, d_prices, d_characteristic, d_jump_ft,
                         held, launchFailed, initialValues, printed>>
       \/ Terminate("cufftExecD2Z", i)

\* Mutant: the two buffers are passed in the wrong order, so the kernel
\* stores its products in d_characteristic.
LaunchSolveODE_SwappedBuffers ==
    /\ pc = "solve_ode"
    /\ intervals' = Append(intervals, [i |-> i, from_time |-> from_time(i),
                                        to_time |-> to_time(i)])
    /\ LaunchOutcome("solveODE", i, "inverse")
    /\ \/ /\ d_characteristic' = Launch(d_characteristic, FourierLaunchIndices(N),
                                         [idx \in FourierLaunchIndices(N) |-> [model |-> "product"]])
          /\ UNCHANGED <<i, d_prices, d_ft, d_jump_ft, launchFailed>>
       \/ /\ launchFailed' = TRUE
          /\ UNCHANGED <<i, d_prices, d_ft, d_characteristic, d_jump_ft>>

\* solveODE<<<fourier_block_count, fourier_block_size>>>(d_ft, d_characteristic, ...)
LaunchSolveODE ==
    /\ pc = "solve_ode"
    /\ intervals' = Append(intervals, [i |-> i, from_time |-> from_time(i),
                                        to_time |-> to_time(i)])
    /\ LaunchOutcome("solveODE", i, "inverse")
    /\ \/ /\ d_ft' = Launch(d_ft, FourierLaunchIndices(N),
                             [idx \in FourierLaunchIndices(N) |-> solveODE(d_ft, d_characteristic, idx)])
          /\ UNCHANGED <<i, d_prices, d_characteristic, d_jump_ft, launchFailed>>
       \/ /\ launchFailed' = TRUE
          /\ UNCHANGED <<i, d_prices, d_ft, d_characteristic, d_jump_ft>>

\* checkCufft(cufftExecZ2D(planr, d_ft, d_prices)): unnormalized, so every
\* entry is N times a continuation value.
InverseTransform ==
    /\ pc = "inverse"
    /\ \/ /\ pc' = "normalize"
          /\ d_prices' \in [0..(N - 1) -> {N * v : v \in ContVals}]
          /\ issued' = Append(issued, Op("cufftExecZ2D", i))
          /\ UNCHANGED <<params, launch, intervals, i, d_ft, d_characteristic, d_jump_ft,
                         held, launchFailed, initialValues, printed>>
       \/ Terminate("cufftExecZ2D", i)

\* Mutant: the timestep always ends after normalize; earlyExercise is never
\* launched.
LaunchNormalize_SkipsExercise ==
    /\ pc = "normalize"
    /\ UNCHANGED intervals
    /\ LaunchOutcome("normalize", i, "loop")
    /\ i' = i + 1
    /\ \/ /\ d_prices' = Launch(d_prices, GridLaunchIndices(N),
                                 [idx \in GridLaunchIndices(N) |-> normalize(d_prices, N, idx)])
          /\ UNCHANGED <<d_ft, d_characteristic, d_jump_ft, launchFailed>>
       \/ /\ launchFailed' = TRUE
          /\ UNCHANGED <<d_prices, d_ft, d_characteristic, d_jump_ft>>

\* normalize<<<...>>>(d_prices, N), then the test on optionExerciseType; a
\* European timestep ends here (i++).
LaunchNormalize ==
    /\ pc = "normalize"
    /\ UNCHANGED intervals
    /\ LaunchOutcome("normalize", i,
                     IF params.optionExerciseType = "American"
                     THEN "early_exercise" ELSE "loop")
    /\ i' = IF params.optionExerciseType = "American" THEN i ELSE i + 1
    /\ \/ /\ d_prices' = Launch(d_prices, GridLaunchIndices(N),
                                 [idx \in GridLaunchIndices(N) |-> normalize(d_prices, N, idx)])
          /\ UNCHANGED <<d_ft, d_characteristic, d_jump_ft, launchFailed>>
       \/ /\ launchFailed' = TRUE
          /\ UNCHANGED <<d_prices, d_ft, d_characteristic, d_jump_ft>>

\* The earlyExercise launch of computeGPU over the price field ft:
\* earlyExercise<<<...>>>(ft, params.startPrice, params.strikePrice, x_min,
\* delta_x, params.optionPayoffType).
EarlyExerciseKernel(ft) ==
    Launch(ft, GridLaunchIndices(N),
           [idx \in GridLaunchIndices(N) |-> earlyExercise(ft, params.startPrice, params.strikePrice,
                                      params.x_min, DeltaX(params),
                                      params.optionPayoffType, idx)])

\* The earlyExercise launch of an American timestep; the timestep ends (i++).
LaunchEarlyExercise ==
    /\ pc = "early_exercise"
    /\ UNCHANGED intervals
    /\ LaunchOutcome("earlyExercise", i, "loop")
    /\ i' = i + 1
    /\ \/ /\ d_prices' = EarlyExerciseKernel(d_prices)
          /\ UNCHANGED <<d_ft, d_characteristic, d_jump_ft, launchFailed>>
       \/ /\ launchFailed' = TRUE
          /\ UNCHANGED <<d_prices, d_ft, d_characteristic, d_jump_ft>>

(* ---------------------- computeGPU: finalization ---------------------- *)

\* checkCuda(cudaMemcpy(&initialValues[0], d_prices, ..., cudaMemcpyDeviceToHost))
CopyOut ==
    /\ pc = "loop"
    /\ ~LoopCondition
    /\ \/ /\ pc' = "release"
          /\ initialValues' = d_prices
          /\ issued' = Append(issued, Op("cudaMemcpy DeviceToHost", NoStep))
          /\ UNCHANGED <<params, launch, intervals, i, d_prices, d_ft, d_characteristic, d_jump_ft,
                         held, launchFailed, printed>>
       \/ Terminate("cudaMemcpy DeviceToHost", NoStep)

\* The resources computeGPU releases: cufftDestroy(plan), cufftDestroy(planr),
\* cudaFree(d_prices), cudaFree(d_ft), cudaFree(d_jump_ft).
Released == {"plan", "planr", "d_prices", "d_ft", "d_jump_ft"}

Release ==
    /\ pc = "release"
    /\ pc' = "extract"
    /\ held' = held \ Released
    /\ UNCHANGED <<params, launch, intervals, i, d_prices, d_ft, d_characteristic, d_jump_ft,
                   issued, launchFailed, initialValues, printed>>

\* assert(answer_index == (int)answer_index), then the printf of
\* initialValues[(int)answer_index].
Extract ==
    /\ pc = "extract"
    /\ \/ /\ AnswerIndexIsInteger(params)
          /\ pc' = "Finalized"
          /\ printed' = Append(printed, initialValues[AnswerIndex(params)])
       \/ /\ ~AnswerIndexIsInteger(params)
          /\ pc' = "aborted"
          /\ UNCHANGED printed
    /\ UNCHANGED <<params, launch, intervals, i, d_prices, d_ft, d_characteristic, d_jump_ft,
                   held, issued, launchFailed, initialValues>>

Next ==
    \/ MallocPrices
    \/ CopyIn
    \/ MallocFt
    \/ PlanForward
    \/ PlanInverse
    \/ MallocCharacteristic
    \/ LaunchCGMY
    \/ MallocJumpFt
    \/ LaunchMerton
    \/ LaunchKou
    \/ LaunchJumpModelCharacteristic
    \/ ForwardTransform
    \/ LaunchSolveODE
    \/ InverseTransform
    \/ LaunchNormalize
    \/ LaunchEarlyExercise
    \/ CopyOut
    \/ Release
    \/ Extract

Spec == Init /\ [][Next]_vars

(* ------------------ kernel launches, block by block ------------------- *)

\* The resolutions whose launches are run: the powers of two from 2 on.
LaunchResolutions == {Pow2(k) : k \in 1..MaxLogResolution}

\* One kernel per device buffer: normalize indexes d_prices (as earlyExercise
\* does), solveODE indexes d_ft and d_characteristic, prepareMertonJumpFT
\* indexes d_jump_ft (as prepareKouJumpFT does), prepareCGMYCharacteristic
\* indexes d_characteristic (as prepareJumpModelCharacteristic does).
LaunchedKernels ==
    {"normalize", "solveODE", "prepareMertonJumpFT", "prepareCGMYCharacteristic"}

\* The buffer a kernel indexes with idx.
KernelBuffer(kernel) ==
    IF kernel = "normalize" THEN d_prices
    ELSE IF kernel = "solveODE" THEN d_ft
    ELSE IF kernel = "prepareMertonJumpFT" THEN d_jump_ft
    ELSE d_characteristic

\* The <<<blocks, threads>>> computeGPU gives a kernel, before any block ran.
LaunchShape(kernel, n, maxBlockSize) ==
    [kernel |-> kernel, maxBlockSize |-> maxBlockSize,
     gridDim |-> IF kernel = "solveODE"
                 THEN fourier_block_count(n, maxBlockSize)
                 ELSE GridBlockCount(n, maxBlockSize),
     blockDim |-> IF kernel = "solveODE"
                  THEN fourier_block_size(n, maxBlockSize)
                  ELSE GridBlockSize(n, maxBlockSize),
     blockIdx |-> 0, touched |-> {}, repeated |-> {}, outside |-> {}]

\* The four device buffers are allocated with N elements each, and one kernel
\* is launched under either build's MAX_BLOCK_SIZE.
InitLaunch ==
    /\ params \in {ParametersRecord(n, 1, "American", "Call", "Merton", 1, <<-1, 2>>, 1) :
                      n \in LaunchResolutions}
    /\ pc = "launch"
    /\ i = 0
    /\ d_prices = [n \in 0..(N - 1) |-> PriceUninit]
    /\ d_ft = [n \in 0..(N - 1) |-> FtUninit]
    /\ d_characteristic = [n \in 0..(N - 1) |-> PsiUninit]
    /\ d_jump_ft = [n \in 0..(N - 1) |-> JumpUninit]
    /\ held = {"d_prices", "d_ft", "plan", "planr", "d_characteristic", "d_jump_ft"}
    /\ issued = << >>
    /\ launchFailed = FALSE
    /\ initialValues = << >>
    /\ printed = << >>
    /\ intervals = << >>
    /\ \E kernel \in LaunchedKernels :
       \E maxBlockSize \in {MAX_BLOCK_SIZE_FLOAT, MAX_BLOCK_SIZE} :
          launch = LaunchShape(kernel, N, maxBlockSize)

\* The threads of block launch.blockIdx run: each computes
\* idx = blockIdx.x * blockDim.x + threadIdx.x and accesses element idx of the
\* kernel's buffer, with no test of idx.  The blocks are taken in the order of
\* their index; the set of elements accessed does not depend on the order.
RunBlock ==
    /\ pc = "launch"
    /\ launch.blockIdx < launch.gridDim
    /\ LET idx == [threadIdx \in 0..(launch.blockDim - 1) |->
                      launch.blockIdx * launch.blockDim + threadIdx]
           accessed == {idx[threadIdx] : threadIdx \in DOMAIN idx}
           inside == accessed \cap DOMAIN KernelBuffer(launch.kernel)
       IN  launch' = [launch EXCEPT
                         !.blockIdx = @ + 1,
                         !.touched = @ \cup inside,
                         !.repeated = @ \cup (accessed \cap launch.touched)
                                        \cup (IF Cardinality(accessed) = launch.blockDim
                                              THEN {} ELSE accessed),
                         !.outside = @ \cup (accessed \ inside)]
    /\ UNCHANGED <<params, pc, i, d_prices, d_ft, d_characteristic, d_jump_ft,
                   held, issued, launchFailed, initialValues, printed, intervals>>

NextLaunch == RunBlock

SpecLaunch == InitLaunch /\ [][NextLaunch]_vars

(* --------------------- C1: order of the sub-steps -------------------- *)

RECURSIVE Concat(_, _)
\* f[0] \o f[1] \o ... \o f[n - 1]
Concat(f, n) == IF n = 0 THEN << >> ELSE Concat(f, n - 1) \o f[n - 1]

IsPrefix(s, t) == Len(s) <= Len(t) /\ SubSeq(t, 1, Len(s)) = s

\* The sub-steps the claim prescribes for timestep step.
TimestepOps(step) ==
    <<Op("cufftExecD2Z", step), Op("solveODE", step), Op("cufftExecZ2D", step),
      Op("normalize", step)>>
    \o (IF params.optionExerciseType = "American"
        THEN <<Op("earlyExercise", step)>> ELSE << >>)

AllTimestepOps ==
    Concat([step \in 0..(params.timesteps - 1) |-> TimestepOps(step)],
           params.timesteps)

IsLoopOp(e) == e.step # NoStep
IsPrepareOp(e) ==
    e.op \in {"prepareCGMYCharacteristic", "prepareMertonJumpFT",
              "prepareKouJumpFT", "prepareJumpModelCharacteristic"}
IsCopyOut(e) == e.op = "cudaMemcpy DeviceToHost"

\* 0: before the timestep loop, 1: a sub-step of the loop, 2: the copy back.
Phase(e) == IF IsLoopOp(e) THEN 1 ELSE IF IsCopyOut(e) THEN 2 ELSE 0

\* C1: the sub-steps issued so far are an initial part of
\* forward transform, solveODE, inverse transform, normalize (, earlyExercise
\* when American) of timestep 0, then the same of timestep 1, and so on, each
\* once; every characteristic-exponent kernel is issued before the first
\* sub-step (and one has been issued by then), and the device-to-host copy is
\* issued after the last sub-step of the last timestep.
C1_SubStepOrder ==
    LET loopOps == SelectSeq(issued, IsLoopOp)
    IN  /\ IsPrefix(loopOps, AllTimestepOps)
        /\ \A a \in 1..(Len(issued) - 1) : Phase(issued[a]) <= Phase(issued[a + 1])
        /\ (issued # << >> /\ IsCopyOut(issued[Len(issued)]))
              => loopOps = AllTimestepOps
        /\ loopOps # << >> => Len(SelectSeq(issued, IsPrepareOp)) >= 1

\* A finished American run of two or more timesteps.
C1_Witness ==
    /\ pc = "Finalized"
    /\ params.timesteps >= 2
    /\ params.optionExerciseType = "American"
    /\ Len(SelectSeq(issued, IsLoopOp)) = 5 * params.timesteps

(* ------------------ C2: release of device resources ------------------ *)

\* C2: when the price has been reported, no device buffer and no transform
\* plan acquired during the run is still held.
C2_AllReleased == pc = "Finalized" => held = {}

(* ---------------- C3: every device failure is fatal ------------------ *)

\* C3: a failed device operation ends the process where it fails, so no price
\* is printed after a failed operation.
C3_NoPriceAfterFailure == launchFailed => printed = << >>

(* ------------------- C4: the No-Jump exponent ------------------------ *)

\* Psi of the No-Jump model at signed frequency index m:
\* -2 (sigma pi k)^2 - r + i (r - q - sigma^2 / 2) (2 pi k).
NoJumpExponent(m) ==
    [model  |-> "JumpModel",
     m      |-> m,
     re_pi2 |-> (0 - 2) * params.volatility * params.volatility * m * m,
     re_one |-> 0 - params.riskFreeRate,
     im_pi  |-> (2 * params.riskFreeRate - 2 * params.dividendRate
                   - params.volatility * params.volatility) * m,
     jump   |-> NoJumpTerm]

\* C4: with jump model None every written bin of CharacteristicField is the
\* No-Jump exponent of volatility, risk-free rate, dividend rate and k alone,
\* whatever the jump parameters are.
C4_NoJumpExponent ==
    (params.jumpType = "None" /\ d_characteristic # NULL) =>
        \A idx \in DOMAIN d_characteristic :
            d_characteristic[idx] # PsiUninit =>
                d_characteristic[idx] = NoJumpExponent(d_characteristic[idx].m)

(* ------------------------ C6: zero timesteps ------------------------- *)

\* C6: with timesteps = 0 no sub-step of the loop is ever issued, the field
\* copied back is the terminal payoff, the reported price is the payoff at the
\* answer index, and for a call with strike < startPrice it is
\* startPrice - strike.
C6_ZeroTimesteps ==
    params.timesteps = 0 =>
        /\ SelectSeq(issued, IsLoopOp) = << >>
        /\ pc \in {"release", "extract", "Finalized"}
              => /\ d_prices = OptionValues(params)
                 /\ initialValues = OptionValues(params)
        /\ pc = "Finalized"
              => /\ printed = <<OptionValues(params)[AnswerIndex(params)]>>
                 /\ (params.optionPayoffType = "Call"
                       /\ params.strikePrice < params.startPrice)
                      => printed = <<Money(params.startPrice)
                                       - Money(params.strikePrice)>>

\* A finished zero-timestep run of a call struck below the start price.
C6_Witness ==
    /\ params.timesteps = 0
    /\ pc = "Finalized"
    /\ params.optionPayoffType = "Call"
    /\ params.strikePrice < params.startPrice
    /\ printed = <<Money(params.startPrice - params.strikePrice)>>

(* ------------------ C7: earlyExercise is idempotent ------------------ *)

\* C7: for every price field a run holds, with the run's payoff type, start
\* price, strike and grid, a second earlyExercise launch changes no entry of
\* the field that a first launch leaves.
C7_Idempotent ==
    d_prices # NULL =>
        LET once == EarlyExerciseKernel(d_prices)
        IN  EarlyExerciseKernel(once) = once

\* The terminal payoff at grid point idx.
Intrinsic(idx) == OptionValues(params)[idx]

\* earlyExercise has just run and raised an entry to a positive payoff.
C7_Witness ==
    /\ pc = "loop"
    /\ i >= 1
    /\ ~launchFailed
    /\ issued[Len(issued)].op = "earlyExercise"
    /\ \E idx \in DOMAIN d_prices :
          /\ d_prices[idx] = Intrinsic(idx)
          /\ d_prices[idx] \notin ContVals

(* -------------- C8: CharacteristicField written once ----------------- *)

\* The provider and jump-transform kernels the claim prescribes.
ExpectedPrepareOps ==
    CASE params.jumpType = "CGMY" ->
           <<Op("prepareCGMYCharacteristic", NoStep)>>
      [] params.jumpType = "Merton" ->
           <<Op("prepareMertonJumpFT", NoStep),
             Op("prepareJumpModelCharacteristic", NoStep)>>
      [] params.jumpType = "Kou" ->
           <<Op("prepareKouJumpFT", NoStep),
             Op("prepareJumpModelCharacteristic", NoStep)>>
      [] OTHER -> <<Op("prepareJumpModelCharacteristic", NoStep)>>

LoopPositions == {"loop", "solve_ode", "inverse", "normalize", "early_exercise"}

\* C8: the characteristic kernels issued are an initial part of the ones the
\* jump model prescribes (one provider, after the matching jump-transform
\* kernel for Merton and Kou), all of them have been issued when the timestep
\* loop is reached, and no step taken inside the loop changes
\* CharacteristicField.
C8_CharacteristicWrittenOnce ==
    /\ [](/\ IsPrefix(SelectSeq(issued, IsPrepareOp), ExpectedPrepareOps)
          /\ pc \in LoopPositions
                => SelectSeq(issued, IsPrepareOp) = ExpectedPrepareOps)
    /\ [][(pc \in LoopPositions) => (d_characteristic' = d_characteristic)]_vars

\* The second timestep of a Merton run whose CharacteristicField is written.
C8_Witness ==
    /\ pc = "solve_ode"
    /\ i >= 1
    /\ params.jumpType = "Merton"
    /\ \A idx \in DOMAIN d_characteristic : d_characteristic[idx] # PsiUninit

(* ---------------- C9: the frequency-folding branch ------------------- *)

CharacteristicWritten ==
    IF d_characteristic = NULL THEN {}
    ELSE {idx \in DOMAIN d_characteristic : d_characteristic[idx] # PsiUninit}

JumpWritten ==
    IF d_jump_ft = NULL THEN {}
    ELSE {idx \in DOMAIN d_jump_ft : d_jump_ft[idx] # JumpUninit}

\* C9 as stated: every thread of the characteristic and jump-transform
\* kernels has idx <= N/2, so only bins 0..N/2 are written and none with the
\* folded frequency idx - N.
C9_OnlyLowerBins ==
    /\ \A idx \in CharacteristicWritten :
          idx <= N \div 2 /\ d_characteristic[idx].m >= 0
    /\ \A idx \in JumpWritten : idx <= N \div 2 /\ d_jump_ft[idx].m >= 0

\* C9 amended: a characteristic or jump-transform kernel that runs writes
\* all N bins, one thread per idx in 0..N-1; bin idx holds the value of signed
\* frequency idx when idx <= N/2 and of idx - N (the folding branch) when
\* idx > N/2.
C9_FoldedBins ==
    /\ CharacteristicWritten \in {{}, 0..(N - 1)}
    /\ JumpWritten \in {{}, 0..(N - 1)}
    /\ \A idx \in CharacteristicWritten :
          d_characteristic[idx].m = (IF idx <= N \div 2 THEN idx ELSE idx - N)
    /\ \A idx \in JumpWritten :
          d_jump_ft[idx].m = (IF idx <= N \div 2 THEN idx ELSE idx - N)

\* A bin above N/2 written by a thread that took the folding branch.
C9_Witness ==
    /\ N >= 4
    /\ (N - 1) \in CharacteristicWritten
    /\ d_characteristic[N - 1].m = 0 - 1
    /\ params.jumpType = "Kou" => (N - 1) \in JumpWritten

(* ------------------- C10: the American floor ------------------------- *)

\* C10: in an American run every entry of PriceField is at least the terminal
\* payoff of its grid point at the end of every timestep, and so is the
\* reported price at the answer index.
C10_AmericanFloor ==
    params.optionExerciseType = "American" =>
        /\ (pc = "loop" /\ i >= 1)
              => \A idx \in DOMAIN d_prices : d_prices[idx] >= Intrinsic(idx)
        /\ pc = "Finalized" => printed[1] >= Intrinsic(AnswerIndex(params))

\* The floor of C10 in the runs where no kernel launch has failed.
FloorWhenLaunched == launchFailed \/ C10_AmericanFloor

(* ------------- C11: the timesteps partition [0, expiry] --------------- *)

\* a <= b for two rationals with positive denominators.
LessEq(a, b) == a.num * b.den <= b.num * a.den

Zero == Rational(0, 1)
Expiry == Rational(params.expiryTime, 1)

\* The loop has been left: the device-to-host copy has been issued.
LoopLeft == \E k \in 1..Len(issued) : IsCopyOut(issued[k])

\* C11: with timesteps >= 1 (the expiry time is never negative), the
\* intervals passed to solveODE so far belong to i = 0, 1, 2, ... in this
\* order, one per iteration that reached its solveODE launch (a failed device
\* call ends the process inside an iteration), and never more than timesteps of
\* them; once the loop is left there are exactly timesteps of them.  The first interval
\* starts at 0, every interval starts where the one before it ended, the
\* interval of i = timesteps - 1 ends at the expiry time, and every interval
\* has 0 <= from_time <= to_time <= expiry.
C11_TimePartition ==
    params.timesteps >= 1 =>
        /\ Len(intervals) <= params.timesteps
        /\ pc \in {"inverse", "normalize", "early_exercise"}
              => Len(intervals) = i + 1
        /\ pc \notin {"inverse", "normalize", "early_exercise", "aborted"}
              => Len(intervals) = i
        /\ pc = "aborted" => Len(intervals) \in {i, i + 1}
        /\ LoopLeft => Len(intervals) = params.timesteps
        /\ \A k \in 1..Len(intervals) :
              /\ intervals[k].i = k - 1
              /\ LessEq(Zero, intervals[k].from_time)
              /\ LessEq(intervals[k].from_time, intervals[k].to_time)
              /\ LessEq(intervals[k].to_time, Expiry)
              /\ k = 1 => intervals[k].from_time = Zero
              /\ k > 1 => intervals[k].from_time = intervals[k - 1].to_time
              /\ k = params.timesteps => intervals[k].to_time = Expiry

\* A finished run of at least two timesteps of positive length.
C11_Witness ==
    /\ pc = "Finalized"
    /\ params.timesteps >= 2
    /\ params.expiryTime >= 2
    /\ Len(intervals) = params.timesteps
    /\ intervals[1].to_time # Zero
    /\ intervals[1].to_time # Expiry

(* ------------- C12: the launch shapes stay inside the buffers --------- *)

\* C12: for N a power of two from 2 on and MAX_BLOCK_SIZE 512 or 1024, no
\* thread of a launch computes an index outside its N-element buffer and no
\* index is computed by two threads; when all blocks of a launch of the
\* max(N / MAX_BLOCK_SIZE, 1) x min(N, MAX_BLOCK_SIZE) shape have run, the
\* indices computed are exactly 0..N-1, and when all blocks of the solveODE
\* launch have run, every index 0..N/2 is among the indices computed.
C12_LaunchInBounds ==
    /\ launch.outside = {}
    /\ launch.repeated = {}
    /\ \A idx \in launch.touched : idx < N
    /\ launch.blockIdx = launch.gridDim =>
          IF launch.kernel = "solveODE"
          THEN 0..(N \div 2) \subseteq launch.touched
          ELSE launch.touched = 0..(N - 1)

\* A finished solveODE launch of several blocks under MAX_BLOCK_SIZE 512, whose
\* last block has threads beyond index N/2.
C12_Witness ==
    /\ launch.kernel = "solveODE"
    /\ launch.maxBlockSize = MAX_BLOCK_SIZE_FLOAT
    /\ launch.gridDim >= 2
    /\ launch.blockIdx = launch.gridDim
    /\ N \div 2 + 1 \in launch.touched

====
